---- MODULE Spec2Model ----
(***************************************************************************)
(* A model of the economical-roar repository: the toy SimpleTestModel, the *)
(* AUROC metric wrapper, the CoLA / MRPC dataset descriptors, the          *)
(* preprocessing script and the two export scripts.                        *)
(*                                                                         *)
(* Each program is a separate state machine over its own variables; the    *)
(* specification of one program keeps the variables of the others idle.    *)
(***************************************************************************)
EXTENDS Integers, Sequences, FiniteSets, TLC

VARIABLES
    \* ---- SimpleTestModel (src/ecoroar/model/simple_test_model.py)
    m_pc,          \* position of the test driver: "start", "called", "embedded", "done"
    m_weights,     \* [embedding, kernel]: the constructor's initializers
    m_x,           \* the TokenizedDict handed to the model
    m_emb,         \* <<the EmbeddingDict returned by inputs_embeds(m_x)>>, or <<>>
    m_logitsTok,   \* logits of call(m_x), or <<>> before the call
    m_logitsEmb,   \* logits of call(m_emb), or <<>> before the call
    m_lookups      \* embedding lookups performed by the last call

modelVars == <<m_pc, m_weights, m_x, m_emb, m_logitsTok, m_logitsEmb, m_lookups>>

None == "None"

\* Sum of a sequence of integers (tf.math.reduce_sum over one axis).
RECURSIVE reduce_sum(_)
reduce_sum(s) == IF s = <<>> THEN 0 ELSE Head(s) + reduce_sum(Tail(s))

\* ------------------------------------------------------------------------
\* SimpleTestModel
\* ------------------------------------------------------------------------

\* Bounds of the batches handed to the model.
MaxBatch == 1
MaxSeqLen == 2

_default_embedding ==
    << <<0, 1>>,   \* BOS
       <<0, 1>>,   \* EOS
       <<0, 0>>,   \* PAD
       <<1, 0>>,   \* TOKEN
       <<0, 1>> >> \* MASK

_defalt_kernel ==
    << <<1, 0, 1>>,
       <<0, 1, 1>> >>

\* Another pair of initializers a test may pass to the constructor.
AltEmbedding == << <<2, 0>>, <<0, -1>>, <<1, 1>>, <<0, 0>>, <<-1, 2>> >>
AltKernel == << <<1, -1, 0>>, <<2, 0, 1>> >>

\* SimpleTestConfig.vocab_size: the number of rows of the embedding.
vocab_size(w) == Len(w.embedding)

\* tf.keras.layers.Embedding: row ids[b][t] (0-based) of the embedding matrix.
Embedding(w, ids) ==
    [b \in 1..Len(ids) |-> [t \in 1..Len(ids[b]) |-> w.embedding[ids[b][t] + 1]]]

\* tf.keras.layers.Dense without bias: z @ kernel.
Dense(w, z) ==
    [b \in 1..Len(z) |->
        [u \in 1..Len(w.kernel[1]) |->
            reduce_sum([d \in 1..Len(w.kernel) |-> z[b][d] * w.kernel[d][u]])]]

\* SimpleTestModel.inputs_embeds
inputs_embeds(w, x) ==
    [inputs_embeds |-> Embedding(w, x.input_ids),
     attention_mask |-> x.attention_mask]

\* inputs_embeds with the padding positions of the attention mask zeroed.
Mutant_call(w, inputs) ==
    LET skip == "inputs_embeds" \in DOMAIN inputs
        x == IF skip THEN inputs ELSE inputs_embeds(w, inputs)
        e == x.inputs_embeds
        D == Len(w.embedding[1])
        z == [b \in 1..Len(e) |-> [t \in 1..Len(e[b]) |->
                [d \in 1..D |-> e[b][t][d] * x.attention_mask[b][t]]]]
        zz == [b \in 1..Len(z) |-> [t \in 1..Len(z[b]) |->
                [d \in 1..D |-> z[b][t][d] * z[b][t][d]]]]
        s == [b \in 1..Len(zz) |->
                [d \in 1..D |-> reduce_sum([t \in 1..Len(zz[b]) |-> zz[b][t][d]])]]
    IN [logits |-> Dense(w, s), lookups |-> IF skip THEN 0 ELSE 1]

\* SimpleTestModel.call: the logits, and how many embedding lookups it made.
call(w, inputs) ==
    LET skip == "inputs_embeds" \in DOMAIN inputs
        x == IF skip THEN inputs ELSE inputs_embeds(w, inputs)
        z == x.inputs_embeds
        D == Len(w.embedding[1])
        zz == [b \in 1..Len(z) |-> [t \in 1..Len(z[b]) |->
                [d \in 1..D |-> z[b][t][d] * z[b][t][d]]]]
        s == [b \in 1..Len(zz) |->
                [d \in 1..D |-> reduce_sum([t \in 1..Len(zz[b]) |-> zz[b][t][d]])]]
    IN [logits |-> Dense(w, s), lookups |-> IF skip THEN 0 ELSE 1]

\* The token ids of the vocabulary of the default embedding.
BOS == 0
EOS == 1
PAD == 2
TOKEN == 3
MASK == 4

TokenIds == {BOS, EOS, PAD, TOKEN, MASK}

\* Batches of token ids: B sequences of the same length T.
Batches ==
    UNION {[1..B -> [1..T -> TokenIds]] : B \in 1..MaxBatch, T \in 1..MaxSeqLen}

\* Attention masks of a batch: all ones, zero at PAD, all zeros, zero at the last position.
AttentionMasks(ids) ==
    { [b \in 1..Len(ids) |-> [t \in 1..Len(ids[b]) |-> 1]],
      [b \in 1..Len(ids) |-> [t \in 1..Len(ids[b]) |-> IF ids[b][t] = PAD THEN 0 ELSE 1]],
      [b \in 1..Len(ids) |-> [t \in 1..Len(ids[b]) |-> 0]],
      [b \in 1..Len(ids) |-> [t \in 1..Len(ids[b]) |-> IF t = Len(ids[b]) THEN 0 ELSE 1]] }

ModelWeights ==
    { [embedding |-> _default_embedding, kernel |-> _defalt_kernel],
      [embedding |-> AltEmbedding, kernel |-> AltKernel] }

ModelIdle ==
    /\ m_pc = "idle"
    /\ m_weights = None
    /\ m_x = None
    /\ m_emb = <<>>
    /\ m_logitsTok = <<>>
    /\ m_logitsEmb = <<>>
    /\ m_lookups = 0

\* SimpleTestModel.__init__ has run (its auto-initialize call made one lookup),
\* and a batch is ready.
ModelInit ==
    /\ m_pc = "start"
    /\ m_weights \in ModelWeights
    /\ \E ids \in Batches : \E mask \in AttentionMasks(ids) :
          m_x = [input_ids |-> ids, attention_mask |-> mask]
    /\ m_emb = <<>>
    /\ m_logitsTok = <<>>
    /\ m_logitsEmb = <<>>
    /\ m_lookups = call(m_weights, [input_ids |-> << <<0, 0>> >>,
                                    attention_mask |-> << <<1, 1>> >>]).lookups

\* model({'input_ids', 'attention_mask'})
CallTokenized ==
    /\ m_pc = "start"
    /\ LET out == call(m_weights, m_x)
       IN /\ m_logitsTok' = out.logits
          /\ m_lookups' = out.lookups
    /\ m_pc' = "called"
    /\ UNCHANGED <<m_weights, m_x, m_emb, m_logitsEmb>>

\* model.inputs_embeds(x)
InputsEmbeds ==
    /\ m_pc = "called"
    /\ m_emb' = <<inputs_embeds(m_weights, m_x)>>
    /\ m_pc' = "embedded"
    /\ UNCHANGED <<m_weights, m_x, m_logitsTok, m_logitsEmb, m_lookups>>

\* model(model.inputs_embeds(x))
CallEmbeds ==
    /\ m_pc = "embedded"
    /\ LET out == call(m_weights, m_emb[1])
       IN /\ m_logitsEmb' = out.logits
          /\ m_lookups' = out.lookups
    /\ m_pc' = "done"
    /\ UNCHANGED <<m_weights, m_x, m_emb, m_logitsTok>>

ModelNext == CallTokenized \/ InputsEmbeds \/ CallEmbeds

\* ------------------------------------------------------------------------
\* AUROC (src/ecoroar/metric/auroc.py)
\* ------------------------------------------------------------------------

VARIABLES
    a_auroc,     \* the accumulator variables of the AUROC metric object
    a_auc,       \* a plain AUC accumulator fed the positive-class column
    a_updates,   \* number of update_state calls made
    a_raised,    \* the last update_state call raised (shape check failed)
    a_lastDiff   \* the two columns of the last update's y_pred differ somewhere

aurocVars == <<a_auroc, a_auc, a_updates, a_raised, a_lastDiff>>

\* Bounds: rows per batch and update_state calls per run.
MaxRows == 1
MaxUpdates == 2

\* Probabilities are modelled in quarters: level l stands for l/4.
ProbLevels == {1, 3}

\* The thresholds of tf.keras.metrics.AUC(num_thresholds=3), in quarters:
\* 0 - epsilon, 0.5, 1 + epsilon.
AUCThresholds == <<-1, 2, 4>>

\* A fresh accumulator: true/false positives/negatives per threshold.
AUCZero ==
    LET zero == [k \in 1..Len(AUCThresholds) |-> 0]
    IN [true_positives |-> zero, false_positives |-> zero,
        true_negatives |-> zero, false_negatives |-> zero]

\* The weight of row i: sample_weight is None (every weight 1), a tensor of
\* rank 0 (one weight for all rows) or of the rank of y_true (one per row).
WeightOf(sample_weight, i) ==
    CASE sample_weight.rank = "None" -> 1
      [] sample_weight.rank = "0" -> sample_weight.value[1]
      [] OTHER -> sample_weight.value[i]

\* tf.keras.metrics.AUC.update_state: accumulate the weighted confusion
\* matrix of (y_true, y_pred > threshold) at every threshold.
AUC_update_state(self, y_true, y_pred, sample_weight) ==
    LET N == Len(y_pred)
        count(k, label, positive) ==
            reduce_sum([i \in 1..N |->
                IF y_true[i] = label /\ ((y_pred[i] > AUCThresholds[k]) = positive)
                THEN WeightOf(sample_weight, i) ELSE 0])
        K == 1..Len(AUCThresholds)
    IN [true_positives  |-> [k \in K |-> self.true_positives[k] + count(k, 1, TRUE)],
        false_positives |-> [k \in K |-> self.false_positives[k] + count(k, 0, TRUE)],
        true_negatives  |-> [k \in K |-> self.true_negatives[k] + count(k, 0, FALSE)],
        false_negatives |-> [k \in K |-> self.false_negatives[k] + count(k, 1, FALSE)]]

\* tf.ensure_shape(y_pred, [None, 2]): whether the tensor passes.
ensure_shape(y_pred, width) == \A i \in 1..Len(y_pred) : Len(y_pred[i]) = width

\* y_pred[:, j] with Python's 0-based column index j.
Column(y_pred, j) == [i \in 1..Len(y_pred) |-> y_pred[i][j + 1]]

\* AUROC.update_state taking the first column (the negative class).
Mutant_AUROC_update_state(self, y_true, y_pred, sample_weight) ==
    AUC_update_state(self, y_true, Column(y_pred, 0), sample_weight)

\* AUROC.update_state: the accumulator after the call (the shape check passed).
AUROC_update_state(self, y_true, y_pred, sample_weight) ==
    AUC_update_state(self, y_true, Column(y_pred, 1), sample_weight)

\* The inputs of one update_state call.
Predictions(N) == [1..N -> [1..2 -> ProbLevels]] \cup [1..N -> [1..3 -> {1}]]
Labels(N) == [1..N -> {0, 1}]
SampleWeights(N) ==
    {[rank |-> "None", value |-> <<>>], [rank |-> "0", value |-> <<2>>]}
    \cup {[rank |-> "1", value |-> v] : v \in [1..N -> {0, 1, 3}]}

AurocIdle ==
    /\ a_auroc = None
    /\ a_auc = None
    /\ a_updates = 0
    /\ a_raised = FALSE
    /\ a_lastDiff = FALSE

AurocInit ==
    /\ a_auroc = AUCZero
    /\ a_auc = AUCZero
    /\ a_updates = 0
    /\ a_raised = FALSE
    /\ a_lastDiff = FALSE

\* metric.update_state(y_true, y_pred, sample_weight) on the AUROC object, and
\* update_state(y_true, positive-class column, sample_weight) on the plain AUC.
AurocUpdate ==
    /\ a_updates < MaxUpdates
    /\ \E N \in 0..MaxRows : \E y_true \in Labels(N), y_pred \in Predictions(N),
                                sample_weight \in SampleWeights(N) :
          IF ensure_shape(y_pred, 2)
          THEN /\ a_auroc' = AUROC_update_state(a_auroc, y_true, y_pred, sample_weight)
               /\ a_auc' = AUC_update_state(a_auc, y_true,
                                [i \in 1..N |-> y_pred[i][2]], sample_weight)
               /\ a_raised' = FALSE
               /\ a_lastDiff' = (\E i \in 1..N : y_pred[i][1] # y_pred[i][2])
          ELSE /\ a_raised' = TRUE
               /\ a_lastDiff' = FALSE
               /\ UNCHANGED <<a_auroc, a_auc>>
    /\ a_updates' = a_updates + 1

AurocNext == AurocUpdate

\* ------------------------------------------------------------------------
\* Dataset descriptors (src/ecoroar/dataset/cola.py, mrpc.py)
\* ------------------------------------------------------------------------

\* A Python string as the sequence of its characters.
Str_train == <<"t", "r", "a", "i", "n">>
Str_validation == <<"v", "a", "l", "i", "d", "a", "t", "i", "o", "n">>

\* 'train[:80%]', 'train[80%:]' and 'validation'
Split_train_to_80 == Str_train \o <<"[", ":", "8", "0", "%", "]">>
Split_train_from_80 == Str_train \o <<"[", "8", "0", "%", ":", "]">>
Split_validation == Str_validation

\* 'train[70%:]'
Split_train_from_70 == Str_train \o <<"[", "7", "0", "%", ":", "]">>

\* CoLADataset with a validation split that starts too early.
MutantCoLADataset ==
    [name |-> "CoLA",
     metrics |-> <<"accuracy", "matthew">>,
     early_stopping_metric |-> "matthew",
     split_train |-> Split_train_to_80,
     split_valid |-> Split_train_from_70,
     split_test |-> Split_validation]

CoLADataset ==
    [name |-> "CoLA",
     metrics |-> <<"accuracy", "matthew">>,
     early_stopping_metric |-> "matthew",
     split_train |-> Split_train_to_80,
     split_valid |-> Split_train_from_80,
     split_test |-> Split_validation]

MRPCDataset ==
    [name |-> "MRPC",
     metrics |-> <<"accuracy", "macro_f1">>,
     early_stopping_metric |-> "macro_f1",
     split_train |-> Split_train_to_80,
     split_valid |-> Split_train_from_80,
     split_test |-> Split_validation]

\* ecoroar.dataset.datasets: the registry, name -> descriptor.
datasets == <<CoLADataset, MRPCDataset>>

DatasetNames == {datasets[i].name : i \in 1..Len(datasets)}

DatasetByName(n) == CHOOSE d \in {datasets[i] : i \in 1..Len(datasets)} : d.name = n

\* ---- split specifications, as the dataset builder reads them

DigitValue(c) ==
    CASE c = "0" -> 0 [] c = "1" -> 1 [] c = "2" -> 2 [] c = "3" -> 3 [] c = "4" -> 4
      [] c = "5" -> 5 [] c = "6" -> 6 [] c = "7" -> 7 [] c = "8" -> 8 [] c = "9" -> 9

Digits == {"0", "1", "2", "3", "4", "5", "6", "7", "8", "9"}

\* int(s) of a string of digits.
RECURSIVE ParseInt(_)
ParseInt(cs) ==
    IF cs = <<>> THEN 0
    ELSE 10 * ParseInt(SubSeq(cs, 1, Len(cs) - 1)) + DigitValue(cs[Len(cs)])

\* The first position of character c in cs, or 0.
IndexOf(cs, c) ==
    IF \E i \in 1..Len(cs) : cs[i] = c
    THEN CHOOSE i \in 1..Len(cs) : cs[i] = c /\ \A j \in 1..(i - 1) : cs[j] # c
    ELSE 0

\* One boundary of a slice: '' (absent), 'N' or 'N%'.
ParseBoundary(cs) ==
    IF cs = <<>> THEN [value |-> <<>>, unit |-> "abs"]
    ELSE IF cs[Len(cs)] = "%"
         THEN [value |-> <<ParseInt(SubSeq(cs, 1, Len(cs) - 1))>>, unit |-> "%"]
         ELSE [value |-> <<ParseInt(cs)>>, unit |-> "abs"]

\* A split specification 'name' or 'name[from:to]' as a read instruction.
ParseSplit(spec) ==
    LET lb == IndexOf(spec, "[")
    IN IF lb = 0
       THEN [split |-> spec, from |-> ParseBoundary(<<>>), to |-> ParseBoundary(<<>>)]
       ELSE LET inner == SubSeq(spec, lb + 1, Len(spec) - 1)
                colon == IndexOf(inner, ":")
            IN [split |-> SubSeq(spec, 1, lb - 1),
                from |-> ParseBoundary(SubSeq(inner, 1, colon - 1)),
                to |-> ParseBoundary(SubSeq(inner, colon + 1, Len(inner)))]

\* int(round(boundary * num_examples / 100.)): to the closest integer, a tie
\* to the even one.
PctToAbsClosest(boundary, num_examples) ==
    LET q == (boundary * num_examples) \div 100
        r == (boundary * num_examples) % 100
    IN IF r < 50 THEN q
       ELSE IF r > 50 THEN q + 1
       ELSE IF q % 2 = 0 THEN q ELSE q + 1

\* The absolute index of a boundary; an absent one takes the default.
AbsBoundary(b, num_examples, default) ==
    IF b.value = <<>> THEN default
    ELSE IF b.unit = "%" THEN PctToAbsClosest(b.value[1], num_examples)
    ELSE b.value[1]

\* The records a split specification selects: record i (0-based) of source
\* split s is <<s, i>>.  num_examples maps a source split to its size.
ReadSplit(spec, num_examples) ==
    LET instr == ParseSplit(spec)
        n == IF instr.split = Str_train THEN num_examples.train
             ELSE num_examples.validation
        from == AbsBoundary(instr.from, n, 0)
        to == AbsBoundary(instr.to, n, n)
        src == IF instr.split = Str_train THEN "train" ELSE "validation"
    IN {<<src, i>> : i \in from..(to - 1)}

VARIABLES
    s_dataset,      \* the descriptor in use
    s_numExamples,  \* [train, validation]: the sizes of the source splits
    s_built,        \* the splits built so far
    s_train,        \* the records of dataset.train()
    s_valid,        \* the records of dataset.valid()
    s_test          \* the records of dataset.test()

splitVars == <<s_dataset, s_numExamples, s_built, s_train, s_valid, s_test>>

\* Bounds on the sizes of the source splits.
MaxTrain == 11
MaxValidation == 3

SplitIdle ==
    /\ s_dataset = None
    /\ s_numExamples = None
    /\ s_built = {}
    /\ s_train = {}
    /\ s_valid = {}
    /\ s_test = {}

SplitInit ==
    /\ s_dataset \in {datasets[i] : i \in 1..Len(datasets)}
    /\ s_numExamples \in [train : 0..MaxTrain, validation : 0..MaxValidation]
    /\ s_built = {}
    /\ s_train = {}
    /\ s_valid = {}
    /\ s_test = {}

\* dataset.train(): the split named by _split_train
DatasetTrain ==
    /\ "train" \notin s_built
    /\ s_train' = ReadSplit(s_dataset.split_train, s_numExamples)
    /\ s_built' = s_built \cup {"train"}
    /\ UNCHANGED <<s_dataset, s_numExamples, s_valid, s_test>>

\* dataset.valid(): the split named by _split_valid
DatasetValid ==
    /\ "valid" \notin s_built
    /\ s_valid' = ReadSplit(s_dataset.split_valid, s_numExamples)
    /\ s_built' = s_built \cup {"valid"}
    /\ UNCHANGED <<s_dataset, s_numExamples, s_train, s_test>>

\* dataset.test(): the split named by _split_test
DatasetTest ==
    /\ "test" \notin s_built
    /\ s_test' = ReadSplit(s_dataset.split_test, s_numExamples)
    /\ s_built' = s_built \cup {"test"}
    /\ UNCHANGED <<s_dataset, s_numExamples, s_train, s_valid>>

SplitNext == DatasetTrain \/ DatasetValid \/ DatasetTest

\* ------------------------------------------------------------------------
\* The preprocessing script (src/experiments/preprocess.py)
\* ------------------------------------------------------------------------

VARIABLES
    p_pc,            \* "models", "datasets", "train", "valid", "test", "done"
    p_datasets,      \* the registry's names in iteration order
    p_sizes,         \* <<name, split>> -> number of items of that split
    p_modelIdx,      \* model names taken so far
    p_tokenizer,     \* the model name of the tokenizer in use, or None
    p_datasetIdx,    \* datasets taken so far under the current tokenizer
    p_iter,          \* items left in the open iterator, or -1 when none is open
    p_instantiated,  \* name -> times the dataset class was instantiated
    p_items,         \* <<name, split>> -> items consumed
    p_exhausted      \* <<name, split>> -> times the split was iterated to its end

prepVars == <<p_pc, p_datasets, p_sizes, p_modelIdx, p_tokenizer, p_datasetIdx,
              p_iter, p_instantiated, p_items, p_exhausted>>

\* Bound on the number of items of a split.
MaxItems == 2

\* for model_name in ['roberta-base']
model_names == <<"roberta-base">>

\* The splits in the order of the three loops over one dataset.
Mutant_split_order == <<"train", "test", "valid">>

split_order == <<"train", "valid", "test">>

Splits == {"train", "valid", "test"}

\* Sequences over S without repetition.
Orderings(S) ==
    UNION {{f \in [1..n -> S] : \A i, j \in 1..n : i # j => f[i] # f[j]} :
           n \in 0..Cardinality(S)}

PrepIdle ==
    /\ p_pc = "idle"
    /\ p_datasets = <<>>
    /\ p_sizes = <<>>
    /\ p_modelIdx = 0
    /\ p_tokenizer = None
    /\ p_datasetIdx = 0
    /\ p_iter = -1
    /\ p_instantiated = <<>>
    /\ p_items = <<>>
    /\ p_exhausted = <<>>

PrepInit ==
    /\ p_pc = "models"
    /\ p_datasets \in Orderings(DatasetNames)
    /\ p_sizes \in [DatasetNames \X Splits -> 0..MaxItems]
    /\ \A k \in DatasetNames \X Splits :
          (\A i \in 1..Len(p_datasets) : p_datasets[i] # k[1]) => p_sizes[k] = 0
    /\ p_modelIdx = 0
    /\ p_tokenizer = None
    /\ p_datasetIdx = 0
    /\ p_iter = -1
    /\ p_instantiated = [n \in DatasetNames |-> 0]
    /\ p_items = [k \in DatasetNames \X Splits |-> 0]
    /\ p_exhausted = [k \in DatasetNames \X Splits |-> 0]

\* The position after split number i of the current dataset.
AfterSplit(i) == IF i < Len(split_order) THEN split_order[i + 1] ELSE "datasets"

SplitIndex(sp) == CHOOSE i \in 1..Len(split_order) : split_order[i] = sp

\* for model_name in [...]: tokenizer = HuggingfaceTokenizer(model_name, ...)
PrepNextModel ==
    /\ p_pc = "models"
    /\ IF p_modelIdx < Len(model_names)
       THEN /\ p_tokenizer' = model_names[p_modelIdx + 1]
            /\ p_modelIdx' = p_modelIdx + 1
            /\ p_datasetIdx' = 0
            /\ p_pc' = "datasets"
       ELSE /\ p_pc' = "done"
            /\ UNCHANGED <<p_tokenizer, p_modelIdx, p_datasetIdx>>
    /\ UNCHANGED <<p_datasets, p_sizes, p_iter, p_instantiated, p_items, p_exhausted>>

\* for name, Dataset in datasets.items(): dataset = Dataset(...)
PrepNextDataset ==
    /\ p_pc = "datasets"
    /\ IF p_datasetIdx < Len(p_datasets)
       THEN /\ p_instantiated' = [p_instantiated EXCEPT ![p_datasets[p_datasetIdx + 1]] = @ + 1]
            /\ p_datasetIdx' = p_datasetIdx + 1
            /\ p_pc' = AfterSplit(0)
       ELSE /\ p_pc' = "models"
            /\ UNCHANGED <<p_instantiated, p_datasetIdx>>
    /\ UNCHANGED <<p_datasets, p_sizes, p_modelIdx, p_tokenizer, p_iter, p_items, p_exhausted>>

\* dataset.train(tokenizer) / .valid(tokenizer) / .test(tokenizer): the iterator
PrepOpenSplit ==
    /\ p_pc \in Splits
    /\ p_iter = -1
    /\ p_iter' = p_sizes[<<p_datasets[p_datasetIdx], p_pc>>]
    /\ UNCHANGED <<p_pc, p_datasets, p_sizes, p_modelIdx, p_tokenizer, p_datasetIdx,
                   p_instantiated, p_items, p_exhausted>>

\* for item in ...: pass
PrepItem ==
    /\ p_pc \in Splits
    /\ p_iter > 0
    /\ p_iter' = p_iter - 1
    /\ p_items' = [p_items EXCEPT ![<<p_datasets[p_datasetIdx], p_pc>>] = @ + 1]
    /\ UNCHANGED <<p_pc, p_datasets, p_sizes, p_modelIdx, p_tokenizer, p_datasetIdx,
                   p_instantiated, p_exhausted>>

\* The iterator is exhausted: the loop ends and the next one starts.
PrepExhausted ==
    /\ p_pc \in Splits
    /\ p_iter = 0
    /\ p_iter' = -1
    /\ p_exhausted' = [p_exhausted EXCEPT ![<<p_datasets[p_datasetIdx], p_pc>>] = @ + 1]
    /\ p_pc' = AfterSplit(SplitIndex(p_pc))
    /\ UNCHANGED <<p_datasets, p_sizes, p_modelIdx, p_tokenizer, p_datasetIdx,
                   p_instantiated, p_items>>

PrepNext ==
    PrepNextModel \/ PrepNextDataset \/ PrepOpenSplit \/ PrepItem \/ PrepExhausted

\* ------------------------------------------------------------------------
\* The export scripts (src/export/faithfulness_plot.py,
\* src/export/unmasked_performance_plot.py): data and dataframe operations
\* ------------------------------------------------------------------------

\* Bound: result files per glob pattern.
MaxFiles == 2

\* The elements of a sequence, each once, in order of first appearance
\* (Series.unique, the uniques of pd.factorize).
RECURSIVE Unique(_)
Unique(s) ==
    IF s = <<>> THEN <<>>
    ELSE LET init == Unique(SubSeq(s, 1, Len(s) - 1))
             last == s[Len(s)]
         IN IF \E i \in 1..Len(init) : init[i] = last THEN init ELSE Append(init, last)

\* The concatenation of a sequence of sequences (pd.concat of dataframes, rows only).
RECURSIVE Concat(_)
Concat(dfs) == IF dfs = <<>> THEN <<>> ELSE Head(dfs) \o Concat(Tail(dfs))

\* One element of a result record's `results` list: the metric readings at
\* one masking ratio.
Entry(ratio, base) ==
    [masking_ratio |-> ratio, loss |-> base + 1, accuracy |-> base + 2,
     matthew |-> base + 3, macro_f1 |-> base + 4]

\* The `args` object of a result record.  A key the file does not hold reads
\* as "NaN" once the records are normalized.
Args(model, dataset, explainer, seed, max_masking_ratio, masking_strategy) ==
    [model |-> model, dataset |-> dataset, explainer |-> explainer, seed |-> seed,
     max_epochs |-> 3, max_masking_ratio |-> max_masking_ratio,
     masking_strategy |-> masking_strategy]

JsonFile(args, results) == [kind |-> "json", value |-> <<[args |-> args, results |-> results]>>]
MalformedFile == [kind |-> "malformed", value |-> <<>>]
AbsentFile == [kind |-> "absent", value |-> <<>>]

\* What results/faithfulness_<id>.json may hold.
FaithfulnessContents(id) ==
    IF id = 1
    THEN { AbsentFile, MalformedFile,
           JsonFile(Args("roberta-m15", "CoLA", "grad", 0, 100, "half-det"),
                    <<Entry(0, 10), Entry(50, 20)>>),
           JsonFile(Args("bert", "CoLA", "rand", 0, 100, "half-det"),
                    <<Entry(0, 30)>>) }
    ELSE IF id = 2
    THEN { AbsentFile, MalformedFile,
           JsonFile(Args("roberta-sb", "MRPC", "rand", 1, 100, "half-det"),
                    <<Entry(100, 40)>>),
           JsonFile(Args("roberta-m15", "MRPC", "inp-grad", 1, 100, "half-det"), <<>>) }
    ELSE { AbsentFile, MalformedFile }

\* What results/masking_<id>.json may hold.
MaskingContents(id) ==
    IF id = 1
    THEN { AbsentFile, MalformedFile,
           JsonFile(Args("roberta-m15", "CoLA", "NaN", 0, 100, "half-det"),
                    <<Entry(0, 60), Entry(50, 70)>>),
           JsonFile(Args("roberta-sb", "MRPC", "NaN", 0, 0, "half-det"),
                    <<Entry(0, 80)>>) }
    ELSE IF id = 2
    THEN { AbsentFile, MalformedFile,
           JsonFile(Args("roberta-sb", "MRPC", "NaN", 1, 100, "uni"),
                    <<Entry(0, 90)>>),
           JsonFile(Args("roberta-sb", "SST2", "NaN", 1, 100, "half-det"),
                    <<Entry(0, 100)>>),
           JsonFile(Args("roberta-m15", "MRPC", "NaN", 1, 100, "half-det"), <<>>) }
    ELSE { AbsentFile, MalformedFile }

FileIds == 1..MaxFiles

\* The names results/<prefix>_<id>.json; names of one prefix sort by id.
FileNames == {"faithfulness", "masking"} \X FileIds

\* The possible contents of the results directory.
ResultsDirs ==
    {d \in [FileNames -> UNION {FaithfulnessContents(i) \cup MaskingContents(i) : i \in FileIds}] :
        \A n \in FileNames :
            d[n] \in (IF n[1] = "faithfulness" THEN FaithfulnessContents(n[2])
                      ELSE MaskingContents(n[2]))}

\* (persistent_dir / 'results').glob('<prefix>_*.json'): the files present.
glob(dir, prefix) == {n \in FileNames : n[1] = prefix /\ dir[n].kind # "absent"}

\* sorted(...) of a set of paths of one prefix.
RECURSIVE sorted(_)
sorted(S) ==
    IF S = {} THEN <<>>
    ELSE LET least == CHOOSE n \in S : \A m \in S : n[2] <= m[2]
         IN <<least>> \o sorted(S \ {least})

\* pd.json_normalize(results): one row per record, the `args` object flattened
\* into args.* columns, the `results` list kept as one cell.  Rows are
\* labelled 0, 1, ...
json_normalize(results) ==
    [i \in 1..Len(results) |->
        [index |-> i - 1, args |-> results[i].args, results |-> results[i].results]]

\* The rows one row explodes to: one per list element; an empty list gives
\* one row whose cell is missing (<<>>), otherwise the cell holds <<element>>.
ExplodeRow(row) ==
    IF row.results = <<>>
    THEN << [index |-> row.index, args |-> row.args, results |-> <<>>] >>
    ELSE [j \in 1..Len(row.results) |->
            [index |-> row.index, args |-> row.args, results |-> <<row.results[j]>>]]

\* df.explode('results', ignore_index=True): the rows relabelled 0, 1, ...
explode(df) ==
    LET rows == Concat([i \in 1..Len(df) |-> ExplodeRow(df[i])])
    IN [i \in 1..Len(rows) |-> [rows[i] EXCEPT !.index = i - 1]]

\* df.pop('results'): the column as a labelled series, and the frame without it.
pop_results(df) ==
    [series |-> [i \in 1..Len(df) |-> [index |-> df[i].index, value |-> df[i].results]],
     rest |-> [i \in 1..Len(df) |-> [index |-> df[i].index, args |-> df[i].args]]]

\* pd.json_normalize(series).add_prefix('results.'): one row per cell,
\* labelled 0, 1, ...; a missing cell gives a row of missing values.
normalize_results(series) ==
    [i \in 1..Len(series) |-> [index |-> i - 1, results |-> series[i].value]]

\* pd.concat([left, right], axis=1): the rows joined on their labels.
concat_columns(left, right) ==
    [i \in 1..Len(left) |->
        LET r == CHOOSE r \in {right[j] : j \in 1..Len(right)} : r.index = left[i].index
        IN [args |-> left[i].args, results |-> r.results]]

\* Lines 78-80 / 92-94 / 69-71: the list of records as a frame with one row
\* per element of each `results` list.
normalize(results) ==
    LET df == explode(json_normalize(results))
        popped == pop_results(df)
    IN concat_columns(popped.rest, normalize_results(popped.series))

\* Whether the frame has a column results.masking_ratio: some row holds readings.
has_results_columns(df) == \E i \in 1..Len(df) : df[i].results # <<>>

\* df.query('`results.masking_ratio` > 0'); a missing value compares false.
query_masked(df) ==
    SelectSeq(df, LAMBDA row : row.results # <<>> /\ row.results[1].masking_ratio > 0)

\* df.query('`args.max_masking_ratio` == 100 & `args.masking_strategy` ==
\* "half-det" & `results.masking_ratio` == 0')
query_goal(df) ==
    SelectSeq(df, LAMBDA row : /\ row.args.max_masking_ratio = 100
                               /\ row.args.masking_strategy = "half-det"
                               /\ row.results # <<>>
                               /\ row.results[1].masking_ratio = 0)

\* df.assign(**{'args.explainer': explainer})
assign_explainer(df, explainer) ==
    [i \in 1..Len(df) |-> [df[i] EXCEPT !.args.explainer = explainer]]

\* df_faithfulness['args.explainer'].unique()
explainers(df) == Unique([i \in 1..Len(df) |-> df[i].args.explainer])

\* The frames pd.concat receives on lines 100-103.
goal_frames(df_masking, df_faithfulness) ==
    LET ex == explainers(df_faithfulness)
    IN [k \in 1..Len(ex) |-> assign_explainer(df_masking, ex[k])]

\* dataset.majority_classifier_test_performance()[metric], kept symbolic.
baseline(dataset, metric) == <<"majority", dataset.name, metric>>

\* Lines 47-56 (faithfulness_plot) and 44-47 (unmasked_performance_plot).
dataset_mapping(performance_metric) ==
    [i \in 1..Len(datasets) |->
        LET target == IF performance_metric = "primary"
                      THEN datasets[i].early_stopping_metric ELSE performance_metric
        IN [dataset |-> datasets[i].name,
            target_metric |-> target,
            baseline |-> baseline(datasets[i], target)]]

\* Lines 57-65 / 48-56.
model_mapping ==
    << [model |-> "roberta-m15", model_category |-> "masking-ratio"],
       [model |-> "roberta-m20", model_category |-> "masking-ratio"],
       [model |-> "roberta-m30", model_category |-> "masking-ratio"],
       [model |-> "roberta-m40", model_category |-> "masking-ratio"],
       [model |-> "roberta-m50", model_category |-> "masking-ratio"],
       [model |-> "roberta-sb", model_category |-> "size"],
       [model |-> "roberta-sl", model_category |-> "size"] >>

\* df.merge(dataset_mapping, on='args.dataset'): inner join, left order.
merge_dataset(df, mapping) ==
    Concat([i \in 1..Len(df) |->
        LET hits == SelectSeq(mapping, LAMBDA m : m.dataset = df[i].args.dataset)
        IN [k \in 1..Len(hits) |->
              [args |-> df[i].args, results |-> df[i].results,
               target_metric |-> hits[k].target_metric, baseline |-> hits[k].baseline]]])

\* df.merge(model_mapping, on='args.model'): inner join, left order.
merge_model(df, mapping) ==
    Concat([i \in 1..Len(df) |->
        LET hits == SelectSeq(mapping, LAMBDA m : m.model = df[i].args.model)
        IN [k \in 1..Len(hits) |->
              [args |-> df[i].args, results |-> df[i].results,
               target_metric |-> df[i].target_metric, baseline |-> df[i].baseline,
               model_category |-> hits[k].model_category]]])

\* The cell of column 'results.<name>' in a row: <<value>>, or <<>> when missing.
results_column(row, name) ==
    IF row.results = <<>> THEN <<>>
    ELSE CASE name = "loss" -> <<row.results[1].loss>>
           [] name = "accuracy" -> <<row.results[1].accuracy>>
           [] name = "matthew" -> <<row.results[1].matthew>>
           [] name = "macro_f1" -> <<row.results[1].macro_f1>>
           [] name = "masking_ratio" -> <<row.results[1].masking_ratio>>
           [] OTHER -> <<>>

\* pd.factorize: the uniques, and for each element its 0-based code.
factorize(values) ==
    LET cols == Unique(values)
    IN [cols |-> cols,
        idx |-> [i \in 1..Len(values) |->
                    (CHOOSE j \in 1..Len(cols) : cols[j] = values[i]) - 1]]

\* select_target_metric reading the first target column in every row.
Mutant_select_target_metric(df) ==
    LET f == factorize([i \in 1..Len(df) |-> df[i].target_metric])
        matrix == [i \in 1..Len(df) |->
                      [j \in 1..Len(f.cols) |-> results_column(df[i], f.cols[j])]]
    IN [i \in 1..Len(df) |-> df[i] @@ [metric |-> matrix[i][1]]]

\* select_target_metric of faithfulness_plot (lines 15-19).
select_target_metric(df) ==
    LET f == factorize([i \in 1..Len(df) |-> df[i].target_metric])
        matrix == [i \in 1..Len(df) |->
                      [j \in 1..Len(f.cols) |-> results_column(df[i], f.cols[j])]]
    IN [i \in 1..Len(df) |-> df[i] @@ [metric |-> matrix[i][f.idx[i] + 1]]]

\* The key of a row in the groupby of unmasked_performance_plot (lines 77-79).
group_key(row) ==
    <<row.args.model, row.args.seed, row.args.dataset, row.args.max_epochs,
      row.args.max_masking_ratio, row.results[1].masking_ratio, row.model_category>>

\* select_target_metric of unmasked_performance_plot (lines 17-21): the
\* target column of the group's first row.
select_target_metric_group(partial_df) ==
    results_column(partial_df[1], partial_df[1].target_metric)

\* .groupby([...]).apply(select_target_metric).reset_index(): one row per key
\* (rows with a missing key value are left out), holding the key columns and
\* `metric`.  Groups are listed in order of first appearance.
groupby_select(df) ==
    LET keyed == SelectSeq(df, LAMBDA row : row.results # <<>>)
        keys == Unique([i \in 1..Len(keyed) |-> group_key(keyed[i])])
    IN [g \in 1..Len(keys) |->
          LET partial_df == SelectSeq(keyed, LAMBDA row : group_key(row) = keys[g])
              first == partial_df[1]
          IN [args |-> [model |-> first.args.model, seed |-> first.args.seed,
                        dataset |-> first.args.dataset, max_epochs |-> first.args.max_epochs,
                        max_masking_ratio |-> first.args.max_masking_ratio],
              masking_ratio |-> first.results[1].masking_ratio,
              model_category |-> first.model_category,
              metric |-> select_target_metric_group(partial_df)]]

\* The rows of a model category in the plot stage of faithfulness_plot (line 122).
query_category(df, model_category) ==
    SelectSeq(df, LAMBDA row : row.model_category = model_category)

\* The rows of a model category in the plot stage of unmasked_performance_plot
\* (line 93).
query_unmasked_category(df, model_category) ==
    SelectSeq(df, LAMBDA row : row.masking_ratio = 0 /\ row.model_category = model_category)

\* The key of a row in the groupby of the plot stage of
\* unmasked_performance_plot (line 99).
plot_key(row) ==
    <<row.args.model, row.args.dataset, row.args.max_epochs, row.args.max_masking_ratio>>

\* bootstrap_confint(['metric']) applied to one group: the mean and the
\* confidence bounds of the group's `metric` observations, kept symbolic as
\* the statistic and the observations it is taken over.
bootstrap_confint(partial_df) ==
    LET observations == [i \in 1..Len(partial_df) |-> partial_df[i].metric]
    IN [metric_mean |-> [stat |-> "mean", of |-> observations],
        metric_lower |-> [stat |-> "lower", of |-> observations],
        metric_upper |-> [stat |-> "upper", of |-> observations]]

\* df_subset.groupby([...]).apply(bootstrap_confint(['metric'])).reset_index()
\* (lines 98-102): one summary row per key, labelled 0, 1, ...  Groups are
\* listed in order of first appearance.
group_confint(df_subset) ==
    LET keys == Unique([i \in 1..Len(df_subset) |-> plot_key(df_subset[i])])
    IN [g \in 1..Len(keys) |->
          LET partial_df == SelectSeq(df_subset, LAMBDA row : plot_key(row) = keys[g])
              first == partial_df[1]
              summary == bootstrap_confint(partial_df)
          IN [index |-> g - 1,
              args |-> [model |-> first.args.model, dataset |-> first.args.dataset,
                        max_epochs |-> first.args.max_epochs,
                        max_masking_ratio |-> first.args.max_masking_ratio],
              metric_mean |-> summary.metric_mean,
              metric_lower |-> summary.metric_lower,
              metric_upper |-> summary.metric_upper]]

\* df_plot.query('`args.max_masking_ratio` == 0') (line 104); the rows keep
\* their labels.
query_unmasked_goal(df_plot) ==
    SelectSeq(df_plot, LAMBDA row : row.args.max_masking_ratio = 0)

\* df_goal.eval('`args.max_masking_ratio` == @max_masking_ratio') (line 106):
\* the expression is a comparison, so eval returns its value, a boolean
\* series with the labels of df_goal.
eval_max_masking_ratio(df_goal, max_masking_ratio) ==
    [i \in 1..Len(df_goal) |->
        [index |-> df_goal[i].index,
         value |-> df_goal[i].args.max_masking_ratio = max_masking_ratio]]

\* Lines 104-108: df_goal of the plot stage of unmasked_performance_plot.
unmasked_goal(df_plot) ==
    LET df_goal == query_unmasked_goal(df_plot)
        ratios == <<0, 100>>
    IN Concat([k \in 1..Len(ratios) |-> eval_max_masking_ratio(df_goal, ratios[k])])

\* for model_category in ['masking-ratio', 'size']
model_categories == <<"masking-ratio", "size">>

\* ------------------------------------------------------------------------
\* The export scripts: state and steps
\* ------------------------------------------------------------------------

VARIABLES
    e_script,          \* "faithfulness" or "unmasked": the script that is run
    e_dir,             \* the results directory: file name -> content
    e_pickle,          \* the script's pickle cache: <<>> (no file) or <<dataframe>>
    e_pc,              \* the position of the running script, "idle" between runs
    e_stage,           \* --stage
    e_metric,          \* --performance-metric
    e_files,           \* the files the loading loop has still to visit
    e_results,         \* the list `results` of the loading loop
    e_opened,          \* the result files opened in this run, in order
    e_stdout,          \* the lines printed in this run
    e_df_faithfulness, \* df_faithfulness
    e_df_masking,      \* df_masking
    e_df_goal,         \* df_goal
    e_df,              \* df
    e_written,         \* the files written in this run
    e_json_loaded,     \* df was built from the loaded JSON records in this run
    e_pickle_read,     \* the pickle cache was read in this run
    e_cat,             \* model categories the plot loop has taken
    e_error            \* the exception that ended the run, or ""

runVars == <<e_pc, e_stage, e_metric, e_files, e_results, e_opened, e_stdout,
             e_df_faithfulness, e_df_masking, e_df_goal, e_df, e_written,
             e_json_loaded, e_pickle_read, e_cat, e_error>>

exportVars == <<e_script, e_dir, e_pickle, runVars>>

\* The lines the scripts print.
FormatError(file) == [text |-> "has a format error", file |-> file, category |-> ""]
Skipping(model_category) ==
    [text |-> "Skipping model category, no observations", file |-> <<"", 0>>,
     category |-> model_category]

\* The files the scripts write.
CsvFile == <<"", "test", "", "csv">>
PickleFile(script) == <<"pandas", script, "", "pd.pkl.xz">>
PlotFile(script, model_category, ext) == <<"plots", script, model_category, ext>>

\* No script is running.
RunIdle ==
    /\ e_pc = "idle"
    /\ e_stage = ""
    /\ e_metric = ""
    /\ e_files = <<>>
    /\ e_results = <<>>
    /\ e_opened = <<>>
    /\ e_stdout = <<>>
    /\ e_df_faithfulness = <<>>
    /\ e_df_masking = <<>>
    /\ e_df_goal = <<>>
    /\ e_df = <<>>
    /\ e_written = {}
    /\ e_json_loaded = FALSE
    /\ e_pickle_read = FALSE
    /\ e_cat = 0
    /\ e_error = ""

ExportIdle ==
    /\ e_script = ""
    /\ e_dir = <<>>
    /\ e_pickle = <<>>
    /\ RunIdle

\* A results directory, no pickle cache yet, no script running.
ExportInit ==
    /\ e_script \in {"faithfulness", "unmasked"}
    /\ e_dir \in ResultsDirs
    /\ e_pickle = <<>>
    /\ RunIdle

\* The run ends with an unhandled exception.
Raise(error) ==
    /\ e_pc' = "crashed"
    /\ e_error' = error

\* if args.stage in ['both', 'preprocess'] with the test always true.
Mutant_in_preprocess(stage) == stage \in {"both", "preprocess", "plot"}

\* if args.stage in ['both', 'preprocess'] (line 67 / 58)
in_preprocess(stage) == stage \in {"both", "preprocess"}

\* if args.stage in ['both', 'plot'] (line 118 / 89)
in_plot(stage) == stage \in {"both", "plot"}

\* The script is started: parse_known_args, the mapping tables (lines 43-65 /
\* 39-56), and the first stage test (line 67 / 58).
ExportStart ==
    /\ e_pc = "idle"
    /\ \E stage \in {"preprocess", "plot", "both"} :
       \E metric \in (IF e_script = "faithfulness" THEN {"primary", "loss", "accuracy"}
                      ELSE {"primary"}) :
          /\ e_stage' = stage
          /\ e_metric' = metric
          /\ e_pc' = IF in_preprocess(stage)
                     THEN (IF e_script = "faithfulness" THEN "glob_faithfulness"
                           ELSE "glob_masking")
                     ELSE "pickle"
    /\ UNCHANGED <<e_script, e_dir, e_pickle, e_files, e_results, e_opened, e_stdout,
                   e_df_faithfulness, e_df_masking, e_df_goal, e_df, e_written,
                   e_json_loaded, e_pickle_read, e_cat, e_error>>

\* results = []; files = sorted(glob(...)) (lines 69-70, 84-85 / 60-61)
GlobFiles ==
    /\ e_pc \in {"glob_faithfulness", "glob_masking"}
    /\ e_results' = <<>>
    /\ e_files' = sorted(glob(e_dir, IF e_pc = "glob_faithfulness" THEN "faithfulness"
                                     ELSE "masking"))
    /\ e_pc' = IF e_pc = "glob_faithfulness" THEN "load_faithfulness" ELSE "load_masking"
    /\ UNCHANGED <<e_script, e_dir, e_pickle, e_stage, e_metric, e_opened, e_stdout,
                   e_df_faithfulness, e_df_masking, e_df_goal, e_df, e_written,
                   e_json_loaded, e_pickle_read, e_cat, e_error>>

\* json.load(fp) raises JSONDecodeError on malformed content.
json_load_raises(content) == content.kind = "malformed"

\* The loop body without its except clause: a malformed file ends the run.
Mutant_LoadBody(file) ==
    IF json_load_raises(e_dir[file])
    THEN /\ Raise("JSONDecodeError")
         /\ UNCHANGED <<e_results, e_stdout>>
    ELSE /\ e_results' = Append(e_results, e_dir[file].value[1])
         /\ UNCHANGED <<e_stdout, e_pc, e_error>>

\* The body of the loading loop for one file (lines 72-76, 87-91 / 63-67).
LoadBody(file) ==
    IF json_load_raises(e_dir[file])
    THEN /\ e_stdout' = Append(e_stdout, FormatError(file))
         /\ UNCHANGED <<e_results, e_pc, e_error>>
    ELSE /\ e_results' = Append(e_results, e_dir[file].value[1])
         /\ UNCHANGED <<e_stdout, e_pc, e_error>>

\* One iteration of the loading loop.
LoadFile ==
    /\ e_pc \in {"load_faithfulness", "load_masking"}
    /\ e_files # <<>>
    /\ e_opened' = Append(e_opened, Head(e_files))
    /\ e_files' = Tail(e_files)
    /\ LoadBody(Head(e_files))
    /\ UNCHANGED <<e_script, e_dir, e_pickle, e_stage, e_metric,
                   e_df_faithfulness, e_df_masking, e_df_goal, e_df, e_written,
                   e_json_loaded, e_pickle_read, e_cat>>

\* faithfulness_plot lines 78-80: the loaded records as df_faithfulness.
\* explode raises KeyError when no record was loaded (there is no column).
NormalizeFaithfulness ==
    /\ e_script = "faithfulness"
    /\ e_pc = "load_faithfulness"
    /\ e_files = <<>>
    /\ IF e_results = <<>>
       THEN Raise("KeyError") /\ UNCHANGED e_df_faithfulness
       ELSE /\ e_df_faithfulness' = normalize(e_results)
            /\ e_pc' = "filter_faithfulness"
            /\ UNCHANGED e_error
    /\ UNCHANGED <<e_script, e_dir, e_pickle, e_stage, e_metric, e_files, e_results,
                   e_opened, e_stdout, e_df_masking, e_df_goal, e_df, e_written,
                   e_json_loaded, e_pickle_read, e_cat>>

\* faithfulness_plot line 81.  query raises when the frame has no column
\* results.masking_ratio (no record held a reading).
FilterFaithfulness ==
    /\ e_pc = "filter_faithfulness"
    /\ IF ~has_results_columns(e_df_faithfulness)
       THEN Raise("UndefinedVariableError") /\ UNCHANGED e_df_faithfulness
       ELSE /\ e_df_faithfulness' = query_masked(e_df_faithfulness)
            /\ e_pc' = "glob_masking"
            /\ UNCHANGED e_error
    /\ UNCHANGED <<e_script, e_dir, e_pickle, e_stage, e_metric, e_files, e_results,
                   e_opened, e_stdout, e_df_masking, e_df_goal, e_df, e_written,
                   e_json_loaded, e_pickle_read, e_cat>>

\* faithfulness_plot lines 92-94: the loaded records as df_masking.
NormalizeMasking ==
    /\ e_script = "faithfulness"
    /\ e_pc = "load_masking"
    /\ e_files = <<>>
    /\ IF e_results = <<>>
       THEN Raise("KeyError") /\ UNCHANGED e_df_masking
       ELSE /\ e_df_masking' = normalize(e_results)
            /\ e_pc' = "goal"
            /\ UNCHANGED e_error
    /\ UNCHANGED <<e_script, e_dir, e_pickle, e_stage, e_metric, e_files, e_results,
                   e_opened, e_stdout, e_df_faithfulness, e_df_goal, e_df, e_written,
                   e_json_loaded, e_pickle_read, e_cat>>

\* faithfulness_plot lines 96-103: the masking rows kept, and one copy of
\* them per explainer.  pd.concat raises ValueError on an empty list.
FilterGoal ==
    /\ e_pc = "goal"
    /\ IF ~has_results_columns(e_df_masking)
       THEN Raise("UndefinedVariableError") /\ UNCHANGED <<e_df_masking, e_df_goal>>
       ELSE LET kept == query_goal(e_df_masking)
                frames == goal_frames(kept, e_df_faithfulness)
            IN /\ e_df_masking' = kept
               /\ IF frames = <<>>
                  THEN Raise("ValueError") /\ UNCHANGED e_df_goal
                  ELSE /\ e_df_goal' = Concat(frames)
                       /\ e_pc' = "merge"
                       /\ UNCHANGED e_error
    /\ UNCHANGED <<e_script, e_dir, e_pickle, e_stage, e_metric, e_files, e_results,
                   e_opened, e_stdout, e_df_faithfulness, e_df, e_written,
                   e_json_loaded, e_pickle_read, e_cat>>

\* faithfulness_plot lines 105-110: the combined frame merged with the
\* mapping tables, the metric selected, and test.csv written.
MergeFaithfulness ==
    /\ e_pc = "merge"
    /\ e_df' = select_target_metric(
                  merge_model(merge_dataset(e_df_faithfulness \o e_df_goal,
                                            dataset_mapping(e_metric)),
                              model_mapping))
    /\ e_written' = e_written \cup {CsvFile}
    /\ e_json_loaded' = TRUE
    /\ e_pc' = "pickle"
    /\ UNCHANGED <<e_script, e_dir, e_pickle, e_stage, e_metric, e_files, e_results,
                   e_opened, e_stdout, e_df_faithfulness, e_df_masking, e_df_goal,
                   e_pickle_read, e_cat, e_error>>

\* unmasked_performance_plot lines 69-71: the loaded records as df.
\* explode raises KeyError when no record was loaded.
NormalizeUnmasked ==
    /\ e_script = "unmasked"
    /\ e_pc = "load_masking"
    /\ e_files = <<>>
    /\ IF e_results = <<>>
       THEN Raise("KeyError") /\ UNCHANGED e_df
       ELSE /\ e_df' = normalize(e_results)
            /\ e_pc' = "merge_unmasked"
            /\ UNCHANGED e_error
    /\ UNCHANGED <<e_script, e_dir, e_pickle, e_stage, e_metric, e_files, e_results,
                   e_opened, e_stdout, e_df_faithfulness, e_df_masking, e_df_goal,
                   e_written, e_json_loaded, e_pickle_read, e_cat>>

\* unmasked_performance_plot lines 73-81: df merged with the mapping tables
\* and grouped.  groupby raises KeyError when there is no column
\* results.masking_ratio; grouping a frame without rows gives an empty frame
\* or raises, depending on the version of the dataframe library.
MergeUnmasked ==
    /\ e_pc = "merge_unmasked"
    /\ IF ~has_results_columns(e_df)
       THEN Raise("KeyError") /\ UNCHANGED <<e_df, e_json_loaded>>
       ELSE LET merged == merge_model(merge_dataset(e_df, dataset_mapping("primary")),
                                      model_mapping)
            IN \/ /\ e_df' = groupby_select(merged)
                  /\ e_json_loaded' = TRUE
                  /\ e_pc' = "pickle"
                  /\ UNCHANGED e_error
               \/ /\ ~has_results_columns(merged)
                  /\ Raise("ValueError")
                  /\ UNCHANGED <<e_df, e_json_loaded>>
    /\ UNCHANGED <<e_script, e_dir, e_pickle, e_stage, e_metric, e_files, e_results,
                   e_opened, e_stdout, e_df_faithfulness, e_df_masking, e_df_goal,
                   e_written, e_pickle_read, e_cat>>

\* Lines 112-116 / 83-87: write the cache (preprocess), read it (plot), or
\* neither (both); then the test of line 118 / 89.
PickleStep ==
    /\ e_pc = "pickle"
    /\ CASE e_stage = "preprocess" ->
              /\ e_pickle' = <<e_df>>
              /\ e_written' = e_written \cup {PickleFile(e_script)}
              /\ e_pc' = IF in_plot(e_stage) THEN "plot" ELSE "done"
              /\ UNCHANGED <<e_df, e_pickle_read, e_error>>
         [] e_stage = "plot" ->
              IF e_pickle = <<>>
              THEN Raise("FileNotFoundError")
                   /\ UNCHANGED <<e_df, e_pickle, e_written, e_pickle_read>>
              ELSE /\ e_df' = e_pickle[1]
                   /\ e_pickle_read' = TRUE
                   /\ e_pc' = IF in_plot(e_stage) THEN "plot" ELSE "done"
                   /\ UNCHANGED <<e_pickle, e_written, e_error>>
         [] OTHER ->
              /\ e_pc' = IF in_plot(e_stage) THEN "plot" ELSE "done"
              /\ UNCHANGED <<e_df, e_pickle, e_written, e_pickle_read, e_error>>
    /\ UNCHANGED <<e_script, e_dir, e_stage, e_metric, e_files, e_results, e_opened,
                   e_stdout, e_df_faithfulness, e_df_masking, e_df_goal, e_json_loaded,
                   e_cat>>

\* The rows of one model category (line 122 / 93).
CategoryRows(model_category) ==
    IF e_script = "faithfulness" THEN query_category(e_df, model_category)
    ELSE query_unmasked_category(e_df, model_category)

\* The plot loop leaving at the first category without rows.
Mutant_AfterCategory(empty) == IF empty \/ e_cat + 1 = Len(model_categories) THEN "done" ELSE "plot"

\* Where the plot loop goes after a category: `continue` and the end of the
\* body both lead to the next category, the last one to the end of the script.
AfterCategory(empty) == IF e_cat + 1 = Len(model_categories) THEN "done" ELSE "plot"

\* One iteration of the plot loop (lines 121-160 / 92-128).  For a category
\* with rows unmasked_performance_plot builds df_plot and df_goal (lines
\* 98-108) before it draws; the drawing itself is taken to write both files.
PlotCategory ==
    /\ e_pc = "plot"
    /\ LET model_category == model_categories[e_cat + 1]
           empty == Len(CategoryRows(model_category)) = 0
       IN /\ IF empty
             THEN /\ e_stdout' = Append(e_stdout, Skipping(model_category))
                  /\ UNCHANGED e_written
             ELSE /\ e_written' = e_written \cup
                        {PlotFile(e_script, model_category, "pdf"),
                         PlotFile(e_script, model_category, "png")}
                  /\ UNCHANGED e_stdout
          /\ e_df_goal' = IF empty \/ e_script = "faithfulness" THEN e_df_goal
                          ELSE unmasked_goal(group_confint(CategoryRows(model_category)))
          /\ e_pc' = AfterCategory(empty)
    /\ e_cat' = e_cat + 1
    /\ UNCHANGED <<e_script, e_dir, e_pickle, e_stage, e_metric, e_files, e_results,
                   e_opened, e_df_faithfulness, e_df_masking, e_df,
                   e_json_loaded, e_pickle_read, e_error>>

\* The process has ended; the script may be run again.
ExportExit ==
    /\ e_pc \in {"done", "crashed"}
    /\ e_pc' = "idle"
    /\ e_stage' = ""
    /\ e_metric' = ""
    /\ e_files' = <<>>
    /\ e_results' = <<>>
    /\ e_opened' = <<>>
    /\ e_stdout' = <<>>
    /\ e_df_faithfulness' = <<>>
    /\ e_df_masking' = <<>>
    /\ e_df_goal' = <<>>
    /\ e_df' = <<>>
    /\ e_written' = {}
    /\ e_json_loaded' = FALSE
    /\ e_pickle_read' = FALSE
    /\ e_cat' = 0
    /\ e_error' = ""
    /\ UNCHANGED <<e_script, e_dir, e_pickle>>

ExportNext ==
    \/ ExportStart \/ GlobFiles \/ LoadFile
    \/ NormalizeFaithfulness \/ FilterFaithfulness \/ NormalizeMasking \/ FilterGoal
    \/ MergeFaithfulness \/ NormalizeUnmasked \/ MergeUnmasked
    \/ PickleStep \/ PlotCategory \/ ExportExit

\* ------------------------------------------------------------------------
\* Specifications
\* ------------------------------------------------------------------------

vars == <<modelVars, aurocVars, splitVars, prepVars, exportVars>>

\* The toy model driven through both of its input paths.
SpecModelInit == ModelInit /\ AurocIdle /\ SplitIdle /\ PrepIdle /\ ExportIdle
SpecModelNext ==
    \/ CallTokenized /\ UNCHANGED <<aurocVars, splitVars, prepVars, exportVars>>
    \/ InputsEmbeds /\ UNCHANGED <<aurocVars, splitVars, prepVars, exportVars>>
    \/ CallEmbeds /\ UNCHANGED <<aurocVars, splitVars, prepVars, exportVars>>
SpecModel == SpecModelInit /\ [][SpecModelNext]_vars

\* The AUROC metric beside a plain AUC accumulator.
SpecAurocInit == ModelIdle /\ AurocInit /\ SplitIdle /\ PrepIdle /\ ExportIdle
SpecAurocNext == AurocUpdate /\ UNCHANGED <<modelVars, splitVars, prepVars, exportVars>>
SpecAuroc == SpecAurocInit /\ [][SpecAurocNext]_vars

\* The three splits of a dataset descriptor.
SpecSplitInit == ModelIdle /\ AurocIdle /\ SplitInit /\ PrepIdle /\ ExportIdle
SpecSplitNext ==
    \/ DatasetTrain /\ UNCHANGED <<modelVars, aurocVars, prepVars, exportVars>>
    \/ DatasetValid /\ UNCHANGED <<modelVars, aurocVars, prepVars, exportVars>>
    \/ DatasetTest /\ UNCHANGED <<modelVars, aurocVars, prepVars, exportVars>>
SpecSplit == SpecSplitInit /\ [][SpecSplitNext]_vars

\* The preprocessing script.
SpecPrepInit == ModelIdle /\ AurocIdle /\ SplitIdle /\ PrepInit /\ ExportIdle
SpecPrepNext ==
    \/ PrepNextModel /\ UNCHANGED <<modelVars, aurocVars, splitVars, exportVars>>
    \/ PrepNextDataset /\ UNCHANGED <<modelVars, aurocVars, splitVars, exportVars>>
    \/ PrepOpenSplit /\ UNCHANGED <<modelVars, aurocVars, splitVars, exportVars>>
    \/ PrepItem /\ UNCHANGED <<modelVars, aurocVars, splitVars, exportVars>>
    \/ PrepExhausted /\ UNCHANGED <<modelVars, aurocVars, splitVars, exportVars>>
SpecPrep == SpecPrepInit /\ [][SpecPrepNext]_vars

\* The export scripts, run any number of times over one results directory.
SpecExportInit == ModelIdle /\ AurocIdle /\ SplitIdle /\ PrepIdle /\ ExportInit
SpecExportNext ==
    \/ ExportStart /\ UNCHANGED <<modelVars, aurocVars, splitVars, prepVars>>
    \/ GlobFiles /\ UNCHANGED <<modelVars, aurocVars, splitVars, prepVars>>
    \/ LoadFile /\ UNCHANGED <<modelVars, aurocVars, splitVars, prepVars>>
    \/ NormalizeFaithfulness /\ UNCHANGED <<modelVars, aurocVars, splitVars, prepVars>>
    \/ FilterFaithfulness /\ UNCHANGED <<modelVars, aurocVars, splitVars, prepVars>>
    \/ NormalizeMasking /\ UNCHANGED <<modelVars, aurocVars, splitVars, prepVars>>
    \/ FilterGoal /\ UNCHANGED <<modelVars, aurocVars, splitVars, prepVars>>
    \/ MergeFaithfulness /\ UNCHANGED <<modelVars, aurocVars, splitVars, prepVars>>
    \/ NormalizeUnmasked /\ UNCHANGED <<modelVars, aurocVars, splitVars, prepVars>>
    \/ MergeUnmasked /\ UNCHANGED <<modelVars, aurocVars, splitVars, prepVars>>
    \/ PickleStep /\ UNCHANGED <<modelVars, aurocVars, splitVars, prepVars>>
    \/ PlotCategory /\ UNCHANGED <<modelVars, aurocVars, splitVars, prepVars>>
    \/ ExportExit /\ UNCHANGED <<modelVars, aurocVars, splitVars, prepVars>>
SpecExport == SpecExportInit /\ [][SpecExportNext]_vars

\* ------------------------------------------------------------------------
\* Properties
\* ------------------------------------------------------------------------

\* The number of positions of sequence s that hold a member of S.
CountIn(s, S) == Cardinality({t \in 1..Len(s) : s[t] \in S})

\* ---- helpers of the export properties

\* The prefix of the files the current loading loop reads.
LoopPrefix == IF e_pc = "load_faithfulness" THEN "faithfulness" ELSE "masking"

\* The files of a prefix that exist, by ascending name.
PresentFiles(prefix) ==
    SelectSeq([i \in 1..MaxFiles |-> <<prefix, i>>], LAMBDA n : e_dir[n].kind # "absent")

\* The result records a list of rows should come from, with the rows
\* expected of one record: one per element of its `results` list.
RowsOfRecord(record) ==
    [j \in 1..Len(record.results) |->
        [args |-> record.args, results |-> <<record.results[j]>>]]

\* The rows expected of a record when a record without readings keeps one
\* row whose results.* cells are all missing.
RowsOfRecordOrBlank(record) ==
    IF record.results = <<>> THEN << [args |-> record.args, results |-> <<>>] >>
    ELSE RowsOfRecord(record)

\* The state holds the frame normalize made of e_results, not yet filtered.
NormalizedFrame ==
    CASE e_pc = "filter_faithfulness" -> <<e_df_faithfulness>>
      [] e_pc = "goal" -> <<e_df_masking>>
      [] e_pc = "merge_unmasked" -> <<e_df>>
      [] OTHER -> <<>>

\* C1: in each loading loop the files are visited in sorted order, none is
\* left out; `results` holds exactly the parsed contents of the well-formed
\* files visited, in that order; one "has a format error" line is printed per
\* malformed file visited; and a malformed file never ends the run.
C1_MalformedSkipped ==
    /\ e_error # "JSONDecodeError"
    /\ e_pc \in {"load_faithfulness", "load_masking"} =>
          LET visited == SelectSeq(e_opened, LAMBDA n : n[1] = LoopPrefix)
              good == SelectSeq(visited, LAMBDA n : e_dir[n].kind = "json")
              bad == SelectSeq(visited, LAMBDA n : e_dir[n].kind = "malformed")
              printed == SelectSeq(e_stdout, LAMBDA m : m.file[1] = LoopPrefix)
          IN /\ visited \o e_files = PresentFiles(LoopPrefix)
             /\ e_results = [i \in 1..Len(good) |-> e_dir[good[i]].value[1]]
             /\ printed = [i \in 1..Len(bad) |-> FormatError(bad[i])]

\* The second loop of faithfulness_plot has ended after a malformed file was
\* followed by a well-formed one, the first loop having met a malformed file
\* after a well-formed one.
C1_Witness ==
    /\ e_script = "faithfulness"
    /\ e_pc = "load_masking"
    /\ e_files = <<>>
    /\ Len(e_opened) = 4
    /\ e_dir[<<"faithfulness", 1>>].kind = "json"
    /\ e_dir[<<"faithfulness", 2>>].kind = "malformed"
    /\ e_dir[<<"masking", 1>>].kind = "malformed"
    /\ e_dir[<<"masking", 2>>].kind = "json"
    /\ Len(e_results) = 1
    /\ Len(e_stdout) = 2

\* Whether df holds a row of the category, as the plot stage of the script
\* selects them.
HasCategoryRows(model_category) ==
    \E i \in 1..Len(e_df) :
        /\ e_df[i].model_category = model_category
        /\ e_script = "unmasked" => e_df[i].masking_ratio = 0

\* C2: the plot stage takes 'masking-ratio' then 'size'; a category without
\* rows gets a "Skipping model category" line and no plot file, a category
\* with rows gets its plots; the stage never raises, and it ends only after
\* both categories were taken.
C2_EmptyCategorySkipped ==
    /\ model_categories = <<"masking-ratio", "size">>
    /\ e_pc = "crashed" => e_cat = 0
    /\ e_pc \in {"plot", "done"} /\ in_plot(e_stage) =>
          /\ e_pc = "done" <=> e_cat = 2
          /\ \A k \in 1..2 :
                LET c == model_categories[k]
                    skipped == \E i \in 1..Len(e_stdout) : e_stdout[i] = Skipping(c)
                    plotted == {PlotFile(e_script, c, "pdf"), PlotFile(e_script, c, "png")}
                IN IF k > e_cat THEN ~skipped /\ plotted \cap e_written = {}
                   ELSE IF HasCategoryRows(c) THEN ~skipped /\ plotted \subseteq e_written
                   ELSE skipped /\ plotted \cap e_written = {}
          /\ \A i, j \in 1..Len(e_stdout) :
                e_stdout[i] = Skipping("size") /\ e_stdout[j] = Skipping("masking-ratio")
                    => j < i

\* The plot stage has ended: 'masking-ratio' had no rows and was skipped,
\* the plots of 'size' were written.
C2_Witness ==
    /\ e_pc = "done"
    /\ e_cat = 2
    /\ \E i \in 1..Len(e_stdout) : e_stdout[i] = Skipping("masking-ratio")
    /\ PlotFile(e_script, "size", "pdf") \in e_written
    /\ PlotFile(e_script, "masking-ratio", "pdf") \notin e_written

\* C3: the frame made of the loaded records holds, for every record, exactly
\* one row per element of its `results` list (so none for an empty list),
\* each with the record's args and that element's readings.
C3_OneRowPerMaskingRatio ==
    NormalizedFrame # <<>> =>
        NormalizedFrame[1] = Concat([r \in 1..Len(e_results) |-> RowsOfRecord(e_results[r])])

\* What the scripts do instead: as C3 for a record with readings, and one
\* row with missing results.* cells for a record with an empty list.
C3_OneRowPerMaskingRatioOrBlank ==
    NormalizedFrame # <<>> =>
        NormalizedFrame[1] =
            Concat([r \in 1..Len(e_results) |-> RowsOfRecordOrBlank(e_results[r])])

\* C5: --stage gates the steps.  'preprocess' loads the JSON files, writes
\* the pickle cache and no plot; 'plot' opens no result file, takes df from
\* the pickle cache and runs the plot loop; 'both' loads the JSON files and
\* plots without writing or reading the cache.  The plot loop only runs on
\* a df obtained by exactly one of the two means.
C5_StageGates ==
    LET plots == {f \in e_written : f[1] = "plots"}
        pickled == PickleFile(e_script) \in e_written
        all_files == IF e_script = "faithfulness"
                     THEN PresentFiles("faithfulness") \o PresentFiles("masking")
                     ELSE PresentFiles("masking")
    IN /\ e_stage = "preprocess" =>
             /\ plots = {} /\ ~e_pickle_read /\ e_pc # "plot" /\ e_cat = 0
             /\ e_pc = "done" =>
                   e_opened = all_files /\ e_json_loaded /\ pickled /\ e_pickle = <<e_df>>
       /\ e_stage = "plot" =>
             /\ e_opened = <<>> /\ ~e_json_loaded /\ e_written \subseteq plots
             /\ e_pc \in {"plot", "done"} => e_pickle_read /\ e_df = e_pickle[1]
             /\ e_pc = "done" => e_cat = Len(model_categories)
       /\ e_stage = "both" =>
             /\ ~e_pickle_read /\ ~pickled
             /\ e_pc \in {"plot", "done"} => e_opened = all_files /\ e_json_loaded
             /\ e_pc = "done" => e_cat = Len(model_categories)
       /\ e_pc = "done" /\ e_stage \in {"plot", "both"} =>
             \A k \in 1..Len(model_categories) :
                HasCategoryRows(model_categories[k]) =>
                    PlotFile(e_script, model_categories[k], "pdf") \in e_written
       /\ e_pc = "plot" \/ e_cat > 0 \/ plots # {} =>
             /\ in_plot(e_stage)
             /\ e_json_loaded # e_pickle_read

\* A run with --stage plot has ended with plots written from a cache that an
\* earlier run had written.
C5_Witness ==
    /\ e_stage = "plot"
    /\ e_pc = "done"
    /\ e_pickle_read
    /\ \E f \in e_written : f[1] = "plots"

\* Whether a row is a zero-masking row.
ZeroMasking(row) == row.results # <<>> /\ row.results[1].masking_ratio = 0

\* The part of C8 that holds whenever the goal rows are built: no
\* faithfulness row with masking ratio <= 0 is left, and the zero-masking
\* rows of the combined frame are the kept masking rows (max_masking_ratio
\* 100, strategy 'half-det', masking ratio 0), once per explainer of the
\* faithfulness rows, with only args.explainer changed.
C8_GoalRows ==
    e_pc = "merge" =>
        LET combined == e_df_faithfulness \o e_df_goal
            masking == Concat([r \in 1..Len(e_results) |-> RowsOfRecordOrBlank(e_results[r])])
            kept == SelectSeq(masking, LAMBDA row :
                        /\ ZeroMasking(row)
                        /\ row.args.max_masking_ratio = 100
                        /\ row.args.masking_strategy = "half-det")
            found == {e_df_faithfulness[i].args.explainer : i \in 1..Len(e_df_faithfulness)}
            zero == SelectSeq(combined, ZeroMasking)
        IN /\ \A i \in 1..Len(e_df_faithfulness) :
                 e_df_faithfulness[i].results[1].masking_ratio > 0
           /\ Len(zero) = Len(kept) * Cardinality(found)
           /\ \A x \in found : \A i \in 1..Len(kept) :
                 Cardinality({j \in 1..Len(zero) :
                     zero[j] = [kept[i] EXCEPT !.args.explainer = x]}) = 1

\* C8: as C8_GoalRows, and when no faithfulness row is left the combined
\* frame is still built, without zero-masking rows: building the goal rows
\* does not end the run.
C8_ZeroMaskingRows ==
    /\ C8_GoalRows
    /\ ~(e_script = "faithfulness" /\ e_pc = "crashed" /\ e_error = "ValueError")

\* The frame of faithfulness_plot after the merges is in e_df.
Merged ==
    /\ e_script = "faithfulness"
    /\ in_preprocess(e_stage)
    /\ e_pc \in {"pickle", "plot", "done"}

KnownDataset(name) == \E i \in 1..Len(datasets) : datasets[i].name = name
KnownModel(name) == \E i \in 1..Len(model_mapping) : model_mapping[i].model = name

GoalBuilt ==
    /\ e_script = "unmasked"
    /\ e_pc \in {"plot", "done"}
    /\ e_cat >= 1
    /\ HasCategoryRows(model_categories[e_cat])

\* The summary rows with args.max_masking_ratio = 0 of the category taken last.
GoalBase == query_unmasked_goal(group_confint(CategoryRows(model_categories[e_cat])))

\* C11: df_goal of unmasked_performance_plot is a table holding every summary
\* row with args.max_masking_ratio = 0 exactly twice, once with
\* args.max_masking_ratio 0 and once with 100, its args.model, args.dataset
\* and metric_mean unchanged, and nothing else.
C11_GoalRowsTwice ==
    GoalBuilt =>
        /\ Len(e_df_goal) = 2 * Len(GoalBase)
        /\ \A i \in 1..Len(GoalBase) : \A ratio \in {0, 100} :
              Cardinality({j \in 1..Len(e_df_goal) :
                  /\ "args" \in DOMAIN e_df_goal[j]
                  /\ "metric_mean" \in DOMAIN e_df_goal[j]
                  /\ e_df_goal[j].args.model = GoalBase[i].args.model
                  /\ e_df_goal[j].args.dataset = GoalBase[i].args.dataset
                  /\ e_df_goal[j].args.max_masking_ratio = ratio
                  /\ e_df_goal[j].metric_mean = GoalBase[i].metric_mean}) = 1

\* What the script builds instead: a series with one truth value per summary
\* row and ratio, the value of max_masking_ratio == ratio, so TRUE for every
\* row at ratio 0 followed by FALSE for every row at ratio 100; it holds no
\* args.* or metric_mean column.
C11_GoalIsComparison ==
    GoalBuilt =>
        /\ Len(e_df_goal) = 2 * Len(GoalBase)
        /\ \A j \in 1..Len(e_df_goal) :
              /\ DOMAIN e_df_goal[j] = {"index", "value"}
              /\ e_df_goal[j].value = (j <= Len(GoalBase))
              /\ e_df_goal[j].index =
                    GoalBase[IF j <= Len(GoalBase) THEN j ELSE j - Len(GoalBase)].index

\* C4: after any sequence of update_state calls on [N,2] predictions, the
\* accumulator of AUROC equals a plain AUC accumulator that was given the
\* same y_true and sample_weight and the positive-class column y_pred[:,1].
C4_AurocMatchesAUC == a_auroc = a_auc

\* Two updates were made, the last on a batch whose columns differ, and
\* the accumulator has counted something at the 0.5 threshold.
C4_Witness ==
    /\ a_updates = MaxUpdates
    /\ a_lastDiff
    /\ ~a_raised
    /\ a_auroc.true_positives[2] > 0
    /\ a_auroc.false_negatives[2] > 0

\* C6: the preprocessing script uses the tokenizer of 'roberta-base';
\* datasets are taken in registry order, each instantiated once, and the
\* train, valid and test splits of a dataset are iterated to exhaustion in
\* that order before the next dataset starts; at normal termination every
\* (dataset, split) pair was consumed in full exactly once.
C6_DatasetsTimesSplits ==
    /\ p_pc \in Splits \cup {"datasets"} => p_tokenizer = "roberta-base"
    /\ \A i \in 1..Len(p_datasets) : \A sp \in Splits :
          LET k == <<p_datasets[i], sp>>
              started == \/ i < p_datasetIdx
                         \/ /\ i = p_datasetIdx
                            /\ \/ p_pc \notin Splits
                               \/ sp = "train"
                               \/ sp = "valid" /\ p_pc \in {"valid", "test"}
                               \/ sp = "test" /\ p_pc = "test"
              finished == \/ i < p_datasetIdx
                          \/ /\ i = p_datasetIdx
                             /\ \/ p_pc \notin Splits
                                \/ sp = "train" /\ p_pc \in {"valid", "test"}
                                \/ sp = "valid" /\ p_pc = "test"
          IN /\ p_instantiated[p_datasets[i]] = (IF i <= p_datasetIdx THEN 1 ELSE 0)
             /\ ~started => p_items[k] = 0 /\ p_exhausted[k] = 0
             /\ finished => p_items[k] = p_sizes[k] /\ p_exhausted[k] = 1
             /\ started /\ ~finished => p_exhausted[k] = 0 /\ p_items[k] <= p_sizes[k]
    /\ p_pc = "done" =>
          /\ p_datasetIdx = Len(p_datasets)
          /\ \A i \in 1..Len(p_datasets) : \A sp \in Splits :
                /\ p_items[<<p_datasets[i], sp>>] = p_sizes[<<p_datasets[i], sp>>]
                /\ p_exhausted[<<p_datasets[i], sp>>] = 1

\* The script has ended over two datasets whose splits all hold items.
C6_Witness ==
    /\ p_pc = "done"
    /\ Len(p_datasets) = 2
    /\ \A i \in 1..2 : \A sp \in Splits : p_items[<<p_datasets[i], sp>>] = MaxItems

\* C7: for CoLA and MRPC alike, training is a prefix of the source 'train'
\* split holding 80% of it (to the closest record), validation is the rest
\* of 'train', the two are disjoint and cover 'train', and test is the
\* source 'validation' split, sharing no record with the other two.
C7_SplitsPartition ==
    s_built = Splits =>
        LET N == s_numExamples.train
            all_train == {<<"train", i>> : i \in 0..(N - 1)}
            all_validation == {<<"validation", i>> : i \in 0..(s_numExamples.validation - 1)}
            k == Cardinality(s_train)
        IN /\ s_train \cap s_valid = {}
           /\ s_train \cup s_valid = all_train
           /\ s_train = {<<"train", i>> : i \in 0..(k - 1)}
           /\ 100 * k - 80 * N <= 50
           /\ 80 * N - 100 * k <= 50
           /\ s_test = all_validation
           /\ s_test \cap (s_train \cup s_valid) = {}

\* All three splits of a dataset with ten 'train' records are built.
C7_Witness ==
    /\ s_built = Splits
    /\ s_numExamples.train = 10
    /\ Cardinality(s_train) = 8
    /\ Cardinality(s_valid) = 2
    /\ Cardinality(s_test) = 3

\* C10: the two input paths of SimpleTestModel give the same logits, a call
\* on an EmbeddingDict makes no embedding lookup (a call on token ids makes
\* one), the attention mask does not change the logits, and with the
\* default weights the logits of a sequence are [#TOKEN, #BOS/EOS/MASK,
\* #non-PAD].
C10_ModelPathsAgree ==
    /\ m_pc = "called" => m_lookups = 1
    /\ m_pc = "done" => m_lookups = 0 /\ m_logitsEmb = m_logitsTok
    /\ m_pc \in {"called", "embedded", "done"} =>
          LET ids == m_x.input_ids
              ones == [b \in 1..Len(ids) |-> [t \in 1..Len(ids[b]) |-> 1]]
          IN /\ m_logitsTok = call(m_weights, [input_ids |-> ids,
                                                attention_mask |-> ones]).logits
             /\ m_weights.embedding = _default_embedding /\ m_weights.kernel = _defalt_kernel =>
                   \A b \in 1..Len(ids) :
                       m_logitsTok[b] = << CountIn(ids[b], {TOKEN}),
                                           CountIn(ids[b], {BOS, EOS, MASK}),
                                           CountIn(ids[b], TokenIds \ {PAD}) >>

\* Both paths ran with the default weights on a batch that holds a PAD and
\* a TOKEN, under an attention mask that is zero somewhere.
C10_Witness ==
    /\ m_pc = "done"
    /\ m_weights.embedding = _default_embedding
    /\ \E b \in 1..Len(m_x.input_ids) : \E t \in 1..Len(m_x.input_ids[b]) :
          m_x.input_ids[b][t] = PAD
    /\ \E b \in 1..Len(m_x.input_ids) : \E t \in 1..Len(m_x.input_ids[b]) :
          m_x.input_ids[b][t] = TOKEN /\ m_x.attention_mask[b][t] = 0
    /\ m_logitsEmb # <<>>

====
